---- MODULE Spec2Model ----
(***************************************************************************)
(* Imbalance bars of mlfinlab/datastructures/imbalance.py.                 *)
(*                                                                         *)
(* The model follows _batch_run's protocol around _extract_bars: the       *)
(* driver holds cache, num_ticks_bar, flag and final_bars; one activation  *)
(* of _extract_bars holds the locals of its frame.  An activation is       *)
(* entered (ExtractCall), runs its for loop one row at a time (ExtractRow)  *)
(* and returns (ExtractReturn).                                            *)
(*                                                                         *)
(* Numbers.  Prices and volumes are small integers (exact in float64).     *)
(* The two EWMA estimates are rationals, kept as <<numerator,              *)
(* denominator>> with a positive denominator; NaN is <<0, 0>>.  +inf and   *)
(* -inf are the sentinels PosInf and NegInf, far outside the price range.  *)
(*                                                                         *)
(* imbalance_array is one Python list object: every CacheData tuple holds  *)
(* a reference to it, not a copy.  The model keeps that list in            *)
(* frame/heap field imbalance_list and leaves the reference out of the     *)
(* cache entries.                                                          *)
(*                                                                         *)
(* Specifications.  Spec: the program on valid arguments and rows.         *)
(* SpecLong: the same on longer streams in fewer calls.  SpecDegenerate:   *)
(* one numeric argument at 0.  SpecUnchecked: rows with negative volumes.  *)
(* SpecProfit: one call of calculate_max_profit of stats/max_profit.py,    *)
(* held in the variable mp, which the other specifications leave alone.    *)
(* SpecBuckets: one call of compute_imbalance_bars of                      *)
(* bars/dollar_imbalance_bars.py, held in the variable cib.                *)
(***************************************************************************)
EXTENDS Integers, Sequences, FiniteSets, TLC

\* ------------------------------------------------------------------ bounds
MaxTicks == 3          \* ticks fed to the program in one behaviour
MaxCalls == 3          \* calls of _extract_bars in one behaviour
MaxStream == 4         \* ticks of the longer streams of SpecLong
MaxSplit == 2          \* calls over a longer stream
MaxLen == 3            \* quotes handed to calculate_max_profit
MaxRows == 3           \* rows of the frame handed to compute_imbalance_bars
BidPrices == 1..4
Spreads == {1, 2}      \* asks[i] - bids[i]
FeeEighths == {0, 1, 2, 3}   \* fee_ratio 0, 0.125, 0.25, 0.375
Prices == {1, 2}
Volumes == {1, 2}
Metrics == {"tick_imbalance", "dollar_imbalance", "volume_imbalance"}
InitTicks == {1, 3}    \* exp_num_ticks_init
PrevBars == {1, 2}     \* num_prev_bars
Windows == {2}         \* num_ticks_ewma_window

PosInf == 1000000
NegInf == -PosInf

\* ------------------------------------------------------- Python primitives
None == <<>>
Some(x) == <<x>>
IsNone(o) == o = <<>>
Get(o) == o[1]

Last(s) == s[Len(s)]
Abs(x) == IF x < 0 THEN -x ELSE x
Sign(x) == IF x > 0 THEN 1 ELSE IF x < 0 THEN -1 ELSE 0
Min(a, b) == IF b < a THEN b ELSE a

\* seq[-n:]
LastN(s, n) ==
    IF n = 0 \/ n >= Len(s) THEN s ELSE SubSeq(s, Len(s) - n + 1, Len(s))

RECURSIVE Pow(_, _)
Pow(b, e) == IF e = 0 THEN 1 ELSE b * Pow(b, e - 1)

\* ---------------------------------------------------------------- numbers
NaN == <<0, 0>>
Rat(i) == <<i, 1>>
IsNaN(r) == r[2] = 0
\* a > b on rationals (false on NaN, like every float comparison with NaN)
RatGt(a, b) == ~IsNaN(a) /\ ~IsNaN(b) /\ a[1] * b[2] > b[1] * a[2]
RatLt(a, b) == RatGt(b, a)
RatAbs(r) == <<Abs(r[1]), r[2]>>
RatMul(a, b) == IF IsNaN(a) \/ IsNaN(b) THEN NaN ELSE <<a[1] * b[1], a[2] * b[2]>>
\* int(r) for r >= 0
RatInt(r) == r[1] \div r[2]

\* ewma(arr, window): e[1] = arr[1], e[i] = a*arr[i] + (1-a)*e[i-1] with
\* a = 2/(window+1); e[i] is kept over the denominator (window+1)^(i-1).
RECURSIVE EwmaNum(_, _, _)
EwmaNum(arr, window, i) ==
    IF i = 1 THEN arr[1]
    ELSE 2 * arr[i] * Pow(window + 1, i - 2) + (window - 1) * EwmaNum(arr, window, i - 1)

ewma(arr, window) ==
    [i \in 1..Len(arr) |-> <<EwmaNum(arr, window, i), Pow(window + 1, i - 1)>>]

\* ------------------------------------------------------------- the program
\* The frame of no activation (between two calls of _extract_bars).
NoFrame ==
    [cache |-> <<>>, num_ticks_bar |-> <<>>, list_bars |-> <<>>,
     cum_ticks |-> 0, cum_dollar_value |-> 0, cum_volume |-> 0, cum_theta |-> 0,
     high_price |-> NegInf, low_price |-> PosInf, exp_num_ticks |-> Rat(0),
     prev_tick_rule |-> None, exp_tick_imb |-> NaN]

\* _get_updated_counters that leaves low_price at +inf.
GetUpdatedCountersNoLow(cache, flag, exp_num_ticks_init, imbalance_list) ==
    IF flag /\ cache # <<>>
    THEN [cum_ticks |-> Last(cache).cum_ticks,
          cum_dollar_value |-> Last(cache).cum_dollar_value,
          cum_volume |-> Last(cache).cum_volume,
          cum_theta |-> Last(cache).cum_theta,
          high_price |-> Last(cache).high,
          low_price |-> PosInf,
          exp_num_ticks |-> Last(cache).exp_num_ticks,
          imbalance_array |-> imbalance_list]
    ELSE [cum_ticks |-> 0, cum_dollar_value |-> 0, cum_volume |-> 0, cum_theta |-> 0,
          high_price |-> NegInf, low_price |-> PosInf,
          exp_num_ticks |-> Rat(exp_num_ticks_init),
          imbalance_array |-> <<>>]

\* _get_updated_counters that leaves high_price at -inf.
GetUpdatedCountersNoHigh(cache, flag, exp_num_ticks_init, imbalance_list) ==
    IF flag /\ cache # <<>>
    THEN [cum_ticks |-> Last(cache).cum_ticks,
          cum_dollar_value |-> Last(cache).cum_dollar_value,
          cum_volume |-> Last(cache).cum_volume,
          cum_theta |-> Last(cache).cum_theta,
          high_price |-> NegInf,
          low_price |-> Last(cache).low,
          exp_num_ticks |-> Last(cache).exp_num_ticks,
          imbalance_array |-> imbalance_list]
    ELSE [cum_ticks |-> 0, cum_dollar_value |-> 0, cum_volume |-> 0, cum_theta |-> 0,
          high_price |-> NegInf, low_price |-> PosInf,
          exp_num_ticks |-> Rat(exp_num_ticks_init),
          imbalance_array |-> <<>>]

\* _get_updated_counters that never reads the cache.
GetUpdatedCountersFresh(cache, flag, exp_num_ticks_init, imbalance_list) ==
    [cum_ticks |-> 0, cum_dollar_value |-> 0, cum_volume |-> 0, cum_theta |-> 0,
     high_price |-> NegInf, low_price |-> PosInf,
     exp_num_ticks |-> Rat(exp_num_ticks_init),
     imbalance_array |-> <<>>]

\* _get_updated_counters that starts every call with a new imbalance list.
GetUpdatedCountersNewHistory(cache, flag, exp_num_ticks_init, imbalance_list) ==
    IF flag /\ cache # <<>>
    THEN [cum_ticks |-> Last(cache).cum_ticks,
          cum_dollar_value |-> Last(cache).cum_dollar_value,
          cum_volume |-> Last(cache).cum_volume,
          cum_theta |-> Last(cache).cum_theta,
          high_price |-> Last(cache).high,
          low_price |-> Last(cache).low,
          exp_num_ticks |-> Last(cache).exp_num_ticks,
          imbalance_array |-> <<>>]
    ELSE [cum_ticks |-> 0, cum_dollar_value |-> 0, cum_volume |-> 0, cum_theta |-> 0,
          high_price |-> NegInf, low_price |-> PosInf,
          exp_num_ticks |-> Rat(exp_num_ticks_init),
          imbalance_array |-> <<>>]

\* _get_updated_counters.  cache is the list passed in, imbalance_list the
\* list object its entries refer to.
GetUpdatedCounters(cache, flag, exp_num_ticks_init, imbalance_list) ==
    IF flag /\ cache # <<>>
    THEN [cum_ticks |-> Last(cache).cum_ticks,
          cum_dollar_value |-> Last(cache).cum_dollar_value,
          cum_volume |-> Last(cache).cum_volume,
          cum_theta |-> Last(cache).cum_theta,
          high_price |-> Last(cache).high,
          low_price |-> Last(cache).low,
          exp_num_ticks |-> Last(cache).exp_num_ticks,
          imbalance_array |-> imbalance_list]
    ELSE [cum_ticks |-> 0, cum_dollar_value |-> 0, cum_volume |-> 0, cum_theta |-> 0,
          high_price |-> NegInf, low_price |-> PosInf,
          exp_num_ticks |-> Rat(exp_num_ticks_init),
          imbalance_array |-> <<>>]

\* The named tuple CacheData, without its imbalance_array reference.
CacheTup(date_time, price, high, low, tick_rule, cum_volume, cum_dollar_value, cum_ticks, cum_theta, exp_num_ticks) ==
    [date_time |-> date_time, price |-> price, high |-> high, low |-> low,
     tick_rule |-> tick_rule, cum_volume |-> cum_volume,
     cum_dollar_value |-> cum_dollar_value, cum_ticks |-> cum_ticks,
     cum_theta |-> cum_theta, exp_num_ticks |-> exp_num_ticks]

\* One row of list_bars, under the column names _batch_run gives it.
BarRow(date_time, open, high, low, close, cum_vol, cum_dollar, cum_ticks) ==
    [date_time |-> date_time, open |-> open, high |-> high, low |-> low,
     close |-> close, cum_vol |-> cum_vol, cum_dollar |-> cum_dollar,
     cum_ticks |-> cum_ticks]

\* The tick rule without carry-forward.
TickRuleNoCarry(tick_diff, prev_tick_rule) == Sign(tick_diff)

TickRule(tick_diff, prev_tick_rule) ==
    IF tick_diff # 0 THEN Sign(tick_diff) ELSE prev_tick_rule

\* The imbalance with the dollar metric taken for the volume metric.
ImbalanceDollarAsVolume(metric, tick_rule, price, volume) ==
    CASE metric = "tick_imbalance" -> tick_rule
      [] metric = "dollar_imbalance" -> tick_rule * volume
      [] metric = "volume_imbalance" -> tick_rule * volume

Imbalance(metric, tick_rule, price, volume) ==
    CASE metric = "tick_imbalance" -> tick_rule
      [] metric = "dollar_imbalance" -> tick_rule * volume * price
      [] metric = "volume_imbalance" -> tick_rule * volume

\* len(imbalance_array) < exp_num_ticks - 1
ArrayNotFilledOffByOne(imbalance_array, exp_num_ticks) ==
    RatLt(Rat(Len(imbalance_array) + 1), exp_num_ticks)

\* len(imbalance_array) < exp_num_ticks
ArrayNotFilled(imbalance_array, exp_num_ticks) ==
    RatLt(Rat(Len(imbalance_array)), exp_num_ticks)

\* round(r) for r >= 0: to the nearest integer, a tie to the even one
RatRound(r) ==
    LET q == r[1] \div r[2]
        twice == 2 * (r[1] - q * r[2])
    IN  IF twice < r[2] THEN q
        ELSE IF twice > r[2] THEN q + 1
        ELSE IF q % 2 = 0 THEN q ELSE q + 1

\* The window with round() for int().
EwmaWindowRounded(exp_num_ticks, num_prev_bars) ==
    RatRound(RatMul(exp_num_ticks, Rat(num_prev_bars)))

EwmaWindow(exp_num_ticks, num_prev_bars) ==
    RatInt(RatMul(exp_num_ticks, Rat(num_prev_bars)))

ExpTickImb(imbalance_array, exp_num_ticks, num_prev_bars) ==
    IF ArrayNotFilled(imbalance_array, exp_num_ticks)
    THEN NaN
    ELSE LET ewma_window == EwmaWindow(exp_num_ticks, num_prev_bars)
         IN  Last(ewma(LastN(imbalance_array, ewma_window), ewma_window))

\* The emission test that passes whenever the expected imbalance is defined.
EmissionTestAlways(cum_theta, exp_num_ticks, exp_tick_imb) ==
    ~IsNaN(exp_tick_imb)

\* The emission test with >= for >.
EmissionTestNonStrict(cum_theta, exp_num_ticks, exp_tick_imb) ==
    /\ ~IsNaN(exp_tick_imb)
    /\ ~RatLt(Rat(Abs(cum_theta)), RatMul(exp_num_ticks, RatAbs(exp_tick_imb)))

\* np.abs(cum_theta) > exp_num_ticks * np.abs(exp_tick_imb)
EmissionTest(cum_theta, exp_num_ticks, exp_tick_imb) ==
    RatGt(Rat(Abs(cum_theta)), RatMul(exp_num_ticks, RatAbs(exp_tick_imb)))

HighPrice(price, high_price) == IF price > high_price THEN price ELSE high_price
LowPrice(price, low_price) == IF price <= low_price THEN price ELSE low_price

\* The open, high and low a new bar reports.
BarOpen(cache) == cache[1].price
BarHigh(high_price, open_price) == high_price
BarLow(low_price, open_price) == Min(low_price, open_price)

\* Twice the expected bar length.
ExpectedNumTicksBarDoubled(num_ticks_bar, num_ticks_ewma_window) ==
    RatMul(Rat(2), Last(ewma(LastN(num_ticks_bar, num_ticks_ewma_window), num_ticks_ewma_window)))

\* The expected bar length over every bar length so far.
ExpectedNumTicksBarAll(num_ticks_bar, num_ticks_ewma_window) ==
    Last(ewma(num_ticks_bar, num_ticks_ewma_window))

ExpectedNumTicksBar(num_ticks_bar, num_ticks_ewma_window) ==
    Last(ewma(LastN(num_ticks_bar, num_ticks_ewma_window), num_ticks_ewma_window))

\* The entry of _extract_bars that starts every call with no bar lengths.
ExtractCallNewBarLengths(S, cfg) ==
    LET cache == IF IsNone(S.cache) THEN <<>> ELSE Get(S.cache)
        c == GetUpdatedCounters(cache, S.flag, cfg.exp_num_ticks_init, S.imbalance_list)
    IN  [S EXCEPT
           !.pc = "loop",
           !.imbalance_list = c.imbalance_array,
           !.frame =
             [cache |-> cache,
              num_ticks_bar |-> <<>>,
              list_bars |-> <<>>,
              cum_ticks |-> c.cum_ticks, cum_dollar_value |-> c.cum_dollar_value,
              cum_volume |-> c.cum_volume, cum_theta |-> c.cum_theta,
              high_price |-> c.high_price, low_price |-> c.low_price,
              exp_num_ticks |-> c.exp_num_ticks,
              prev_tick_rule |-> IF IsNone(S.cache) THEN Some(0) ELSE None,
              exp_tick_imb |-> NaN]]

\* Entry of _extract_bars up to its for loop.
ExtractCall(S, cfg) ==
    LET cache == IF IsNone(S.cache) THEN <<>> ELSE Get(S.cache)
        c == GetUpdatedCounters(cache, S.flag, cfg.exp_num_ticks_init, S.imbalance_list)
    IN  [S EXCEPT
           !.pc = "loop",
           !.imbalance_list = c.imbalance_array,
           !.frame =
             [cache |-> cache,
              num_ticks_bar |-> IF IsNone(S.cache) \/ IsNone(S.num_ticks_bar)
                                THEN <<>> ELSE Get(S.num_ticks_bar),
              list_bars |-> <<>>,
              cum_ticks |-> c.cum_ticks, cum_dollar_value |-> c.cum_dollar_value,
              cum_volume |-> c.cum_volume, cum_theta |-> c.cum_theta,
              high_price |-> c.high_price, low_price |-> c.low_price,
              exp_num_ticks |-> c.exp_num_ticks,
              prev_tick_rule |-> IF IsNone(S.cache) THEN Some(0) ELSE None,
              exp_tick_imb |-> NaN]]

\* The reset that leaves cum_ticks running.
ResetCountersKeepTicks(c, expected_num_ticks_bar) ==
    [c EXCEPT !.cum_dollar_value = 0, !.cum_volume = 0,
              !.cum_theta = 0, !.high_price = NegInf, !.low_price = PosInf,
              !.exp_num_ticks = expected_num_ticks_bar, !.cache = <<>>]

\* The reset that leaves cum_theta running.
ResetCountersKeepTheta(c, expected_num_ticks_bar) ==
    [c EXCEPT !.cum_ticks = 0, !.cum_dollar_value = 0, !.cum_volume = 0,
              !.high_price = NegInf, !.low_price = PosInf,
              !.exp_num_ticks = expected_num_ticks_bar, !.cache = <<>>]

\* The reset that leaves cum_volume running.
ResetCountersKeepVolume(c, expected_num_ticks_bar) ==
    [c EXCEPT !.cum_ticks = 0, !.cum_dollar_value = 0,
              !.cum_theta = 0, !.high_price = NegInf, !.low_price = PosInf,
              !.exp_num_ticks = expected_num_ticks_bar, !.cache = <<>>]

\* The reset that keeps the cache.
ResetCountersKeepCache(c, expected_num_ticks_bar) ==
    [c EXCEPT !.cum_ticks = 0, !.cum_dollar_value = 0, !.cum_volume = 0,
              !.cum_theta = 0, !.high_price = NegInf, !.low_price = PosInf,
              !.exp_num_ticks = expected_num_ticks_bar]

\* Lines 212-215: the counters after a bar was appended to list_bars.
ResetCounters(c, expected_num_ticks_bar) ==
    [c EXCEPT !.cum_ticks = 0, !.cum_dollar_value = 0, !.cum_volume = 0,
              !.cum_theta = 0, !.high_price = NegInf, !.low_price = PosInf,
              !.exp_num_ticks = expected_num_ticks_bar, !.cache = <<>>]

\* The CacheData tuple built from the locals of frame c for the current row.
CacheData(c, date_time, price, tick_rule) ==
    CacheTup(date_time, price, c.high_price, c.low_price, tick_rule, c.cum_volume,
             c.cum_dollar_value, c.cum_ticks, c.cum_theta, c.exp_num_ticks)

\* Lines 189-211: the bar appended to list_bars and the new bar length.
CreateBar(c, cfg, date_time, price) ==
    LET open_price == BarOpen(c.cache)
        high_price == BarHigh(c.high_price, open_price)
        low_price == BarLow(c.low_price, open_price)
        close_price == price
    IN  [c EXCEPT
           !.num_ticks_bar = Append(@, c.cum_ticks),
           !.list_bars = Append(@, BarRow(date_time, open_price, high_price, low_price,
                                          close_price, c.cum_volume, c.cum_dollar_value,
                                          c.cum_ticks))]

\* One iteration of the for loop of _extract_bars on row = [date_time, price, volume].
ExtractRow(S, cfg, row) ==
    LET f == S.frame
        date_time == row.date_time
        price == row.price
        volume == row.volume
        indexError == f.cache = <<>>
        tick_diff == IF indexError THEN 0 ELSE price - Last(f.cache).price
        prev_tick_rule == IF indexError THEN f.prev_tick_rule
                          ELSE Some(Last(f.cache).tick_rule)
    IN  IF tick_diff = 0 /\ IsNone(prev_tick_rule)
        THEN \* UnboundLocalError: prev_tick_rule was never assigned
             [S EXCEPT !.pc = "error", !.frame = NoFrame]
        ELSE
        LET tick_rule == TickRule(tick_diff, Get(prev_tick_rule))
            imbalance == Imbalance(cfg.metric, tick_rule, price, volume)
            imbalance_array == Append(S.imbalance_list, imbalance)
            exp_tick_imb == ExpTickImb(imbalance_array, f.exp_num_ticks, cfg.num_prev_bars)
            \* the locals after lines 128-166
            c1 == [f EXCEPT
                     !.cum_ticks = @ + 1,
                     !.cum_dollar_value = @ + price * volume,
                     !.cum_volume = @ + volume,
                     !.prev_tick_rule = prev_tick_rule,
                     !.cum_theta = @ + imbalance,
                     !.exp_tick_imb = exp_tick_imb,
                     !.high_price = HighPrice(price, @),
                     !.low_price = LowPrice(price, @)]
            \* lines 169-182
            c2 == [c1 EXCEPT !.cache = Append(@, CacheData(c1, date_time, price, tick_rule))]
            emit == EmissionTest(c2.cum_theta, c2.exp_num_ticks, exp_tick_imb)
            \* lines 185-215
            c3 == IF emit
                  THEN LET b == CreateBar(c2, cfg, date_time, price)
                       IN  ResetCounters(b, ExpectedNumTicksBar(b.num_ticks_bar,
                                                                cfg.num_ticks_ewma_window))
                  ELSE c2
            \* lines 218-231
            c4 == [c3 EXCEPT !.cache = Append(@, CacheData(c3, date_time, price, tick_rule))]
            entry == [tick_rule |-> tick_rule, imbalance |-> imbalance,
                      cum_theta |-> c2.cum_theta, exp_num_ticks |-> c2.exp_num_ticks,
                      exp_tick_imb |-> exp_tick_imb, hist_len |-> Len(imbalance_array)]
        IN  [S EXCEPT !.imbalance_list = imbalance_array,
                      !.log = Append(@, entry),
                      !.frame = c4]

\* Returns the cache without its first entry.
ReturnedCacheTail(cache) == IF cache = <<>> THEN cache ELSE Tail(cache)

\* The cache _extract_bars returns.
ReturnedCache(cache) == cache

\* return list_bars, cache, num_ticks_bar; then _batch_run's final_bars +=
\* list_bars and flag = True.
ExtractReturn(S) ==
    [S EXCEPT
       !.pc = "idle",
       !.cache = Some(ReturnedCache(S.frame.cache)),
       !.num_ticks_bar = Some(S.frame.num_ticks_bar),
       !.final_bars = @ \o S.frame.list_bars,
       !.flag = TRUE,
       !.frame = NoFrame]

\* _batch_run before its first batch.
Start ==
    [pc |-> "idle", cache |-> None, num_ticks_bar |-> None, flag |-> FALSE,
     final_bars |-> <<>>, frame |-> NoFrame, imbalance_list |-> <<>>, log |-> <<>>]

\* ------------------------------------------------- stats/max_profit.py
\* Amounts of calculate_max_profit are kept in quarters (4 * amount) and
\* fee_ratio in eighths, so that bids[i] * (1.0 - 2 * fee_ratio) is exact
\* here as it is in binary floating point.
Gain(bid, fee) == bid * (4 - fee)
Cost(ask) == 4 * ask

\* a + b on floats, a possibly -inf
Plus(a, b) == IF a = NegInf THEN NegInf ELSE a + b

\* sorted(seq)
RECURSIVE Insert(_, _)
Insert(s, x) ==
    IF s = <<>> THEN <<x>>
    ELSE IF x < s[1] THEN <<x>> \o s
    ELSE <<s[1]>> \o Insert(Tail(s), x)

RECURSIVE Sorted(_)
Sorted(seq) == IF seq = <<>> THEN <<>> ELSE Insert(Sorted(Tail(seq)), seq[1])

\* The for loop of consolidate_sequence from sorted_seq[k] on;
\* current_last is current_sequence[-1].
RECURSIVE Consolidate(_, _, _, _)
Consolidate(sorted_seq, k, current_last, result) ==
    IF k > Len(sorted_seq) THEN Append(result, current_last)
    ELSE IF sorted_seq[k] - current_last = 1
         THEN Consolidate(sorted_seq, k + 1, sorted_seq[k], result)
         ELSE Consolidate(sorted_seq, k + 1, sorted_seq[k], Append(result, current_last))

\* consolidate_sequence keeping the first index of every run.
RECURSIVE ConsolidateFirst(_, _, _, _)
ConsolidateFirst(sorted_seq, k, current_last, result) ==
    IF k > Len(sorted_seq) THEN result
    ELSE IF sorted_seq[k] - current_last = 1
         THEN ConsolidateFirst(sorted_seq, k + 1, sorted_seq[k], result)
         ELSE ConsolidateFirst(sorted_seq, k + 1, sorted_seq[k], Append(result, sorted_seq[k]))

ConsolidateSequenceFirst(seq) ==
    LET sorted_seq == Sorted(seq)
    IN  ConsolidateFirst(sorted_seq, 2, sorted_seq[1], <<sorted_seq[1]>>)

\* consolidate_sequence(seq) for a non-empty seq; on the empty one line 15
\* raises IndexError.
ConsolidateSequence(seq) ==
    LET sorted_seq == Sorted(seq)
    IN  Consolidate(sorted_seq, 2, sorted_seq[1], <<>>)

\* No call of calculate_max_profit.
MaxProfitOff == [pc |-> "off"]

\* calculate_max_profit up to its for loop.
MaxProfitCall(asks, bids, fee) ==
    [pc |-> "loop", asks |-> asks, bids |-> bids, fee |-> fee, i |-> 0,
     sell_max_sell |-> NegInf, sell_max_buy |-> 0,
     buy_max_sell |-> 0, buy_max_buy |-> NegInf,
     sell_trades |-> <<>>, buy_trades |-> <<>>, result |-> None]

\* One iteration of the for loop, i counted from 0 as in the source.
MaxProfitLoop(m) ==
    LET gain == Gain(m.bids[m.i + 1], m.fee)
        cost == Cost(m.asks[m.i + 1])
        sell == m.sell_max_sell < Plus(m.sell_max_buy, gain)
        sell_max_sell == IF sell THEN Plus(m.sell_max_buy, gain) ELSE m.sell_max_sell
        sell_max_buy == IF m.sell_max_buy < Plus(sell_max_sell, -cost)
                        THEN Plus(sell_max_sell, -cost) ELSE m.sell_max_buy
        buy_max_sell == IF m.buy_max_sell < Plus(m.buy_max_buy, gain)
                        THEN Plus(m.buy_max_buy, gain) ELSE m.buy_max_sell
        buy == m.buy_max_buy < Plus(buy_max_sell, -cost)
        buy_max_buy == IF buy THEN Plus(buy_max_sell, -cost) ELSE m.buy_max_buy
    IN  [m EXCEPT !.i = @ + 1,
                  !.sell_max_sell = sell_max_sell, !.sell_max_buy = sell_max_buy,
                  !.buy_max_sell = buy_max_sell, !.buy_max_buy = buy_max_buy,
                  !.sell_trades = IF sell THEN Append(@, m.i) ELSE @,
                  !.buy_trades = IF buy THEN Append(@, m.i) ELSE @]

\* The return statement: consolidate_sequence raises on an empty list.
MaxProfitReturn(m) ==
    IF m.buy_trades = <<>> \/ m.sell_trades = <<>>
    THEN [m EXCEPT !.pc = "error"]
    ELSE [m EXCEPT !.pc = "done",
                   !.result = Some([max_profit |-> m.sell_max_buy + m.buy_max_sell,
                                    buy_trades |-> ConsolidateSequence(m.buy_trades),
                                    sell_trades |-> ConsolidateSequence(m.sell_trades)])]

\* --------------------------------------- bars/dollar_imbalance_bars.py
\* No call of compute_imbalance_bars.
ImbalanceBarsOff == [pc |-> "off"]

\* Lines 14-21: the frame after pct_change, dropna and np.where.  The
\* first row has no return and is dropped; idx is the row's place in the
\* frame handed in.  Closes are positive, so the sign of the return is
\* the sign of the difference of the closes.
SignedRows(ohlcv) ==
    [k \in 1..(Len(ohlcv) - 1) |->
        LET row == ohlcv[k + 1]
            return == Sign(row.Close - ohlcv[k].Close)
        IN  [idx |-> k + 1, Open |-> row.Open, High |-> row.High, Low |-> row.Low,
             Close |-> row.Close, Volume |-> row.Volume, Number |-> row.Number,
             SignedVolume |-> IF return > 0 THEN row.Volume
                              ELSE IF return < 0 THEN -row.Volume ELSE 0]]

\* compute_imbalance_bars up to its for loop; numbered: the frame has the
\* column Number.  iloc[0] of an empty frame raises IndexError (line 27).
ImbalanceBarsCall(ohlcv, bucket_size, numbered) ==
    LET rows == SignedRows(ohlcv)
    IN  [pc |-> IF rows = <<>> THEN "error" ELSE "loop",
         ohlcv |-> ohlcv, bucket_size |-> bucket_size, numbered |-> numbered,
         rows |-> rows, i |-> 0, bars |-> <<>>,
         running_volume |-> 0, running_buy_volume |-> 0, running_sell_volume |-> 0,
         open_price |-> IF rows = <<>> THEN 0 ELSE rows[1].Open]

\* One iteration of the for loop.  BuyVolume and SellVolume hold the
\* arguments of np.log1p.  Without the column Number line 40 raises KeyError.
ImbalanceBarsLoop(c) ==
    LET row == c.rows[c.i + 1]
        running_volume == c.running_volume + Abs(row.SignedVolume)
        running_buy_volume ==
            c.running_buy_volume + (IF row.SignedVolume > 0 THEN row.SignedVolume ELSE 0)
        running_sell_volume ==
            c.running_sell_volume - (IF row.SignedVolume < 0 THEN row.SignedVolume ELSE 0)
    IN  IF running_volume >= c.bucket_size
        THEN IF ~c.numbered
             THEN [c EXCEPT !.pc = "error"]
             ELSE [c EXCEPT
                     !.i = @ + 1,
                     !.bars = Append(@, [idx |-> row.idx, Open |-> c.open_price,
                                         High |-> row.High, Low |-> row.Low,
                                         Close |-> row.Close, Volume |-> running_volume,
                                         BuyVolume |-> running_buy_volume,
                                         SellVolume |-> running_sell_volume,
                                         Number |-> row.Number]),
                     !.running_volume = 0, !.running_buy_volume = 0,
                     !.running_sell_volume = 0, !.open_price = row.Close]
        ELSE [c EXCEPT !.i = @ + 1, !.running_volume = running_volume,
                       !.running_buy_volume = running_buy_volume,
                       !.running_sell_volume = running_sell_volume]

\* Line 63.
ImbalanceBarsReturn(c) == [c EXCEPT !.pc = "done"]

\* ------------------------------------------------------------------- state
VARIABLES
    metric, exp_num_ticks_init, num_prev_bars, num_ticks_ewma_window, \* arguments
    pc,              \* "idle": between calls, "loop": inside _extract_bars, "error"
    cache, num_ticks_bar, flag, final_bars,  \* _batch_run's variables
    frame,           \* the locals of the running _extract_bars
    imbalance_list,  \* the imbalance_array list object
    log,             \* per processed row: what the row computed (history)
    stream,          \* the rows fed so far (history)
    batches,         \* the number of rows of each call so far (history)
    mp,              \* the running calculate_max_profit, its arguments and locals
    cib              \* the running compute_imbalance_bars, likewise

args == <<metric, exp_num_ticks_init, num_prev_bars, num_ticks_ewma_window>>
prog == <<pc, cache, num_ticks_bar, flag, final_bars, frame, imbalance_list, log>>
vars == <<args, prog, stream, batches, mp, cib>>

Cfg ==
    [metric |-> metric, exp_num_ticks_init |-> exp_num_ticks_init,
     num_prev_bars |-> num_prev_bars, num_ticks_ewma_window |-> num_ticks_ewma_window]

Cur ==
    [pc |-> pc, cache |-> cache, num_ticks_bar |-> num_ticks_bar, flag |-> flag,
     final_bars |-> final_bars, frame |-> frame, imbalance_list |-> imbalance_list,
     log |-> log]

Becomes(S) ==
    /\ pc' = S.pc
    /\ cache' = S.cache
    /\ num_ticks_bar' = S.num_ticks_bar
    /\ flag' = S.flag
    /\ final_bars' = S.final_bars
    /\ frame' = S.frame
    /\ imbalance_list' = S.imbalance_list
    /\ log' = S.log

Init ==
    /\ metric \in Metrics
    /\ exp_num_ticks_init \in InitTicks
    /\ num_prev_bars \in PrevBars
    /\ num_ticks_ewma_window \in Windows
    /\ pc = Start.pc
    /\ cache = Start.cache
    /\ num_ticks_bar = Start.num_ticks_bar
    /\ flag = Start.flag
    /\ final_bars = Start.final_bars
    /\ frame = Start.frame
    /\ imbalance_list = Start.imbalance_list
    /\ log = Start.log
    /\ stream = <<>>
    /\ batches = <<>>
    /\ mp = MaxProfitOff
    /\ cib = ImbalanceBarsOff

\* The caller hands the next batch to _extract_bars.
Call ==
    /\ pc = "idle"
    /\ Len(batches) < MaxCalls
    /\ Becomes(ExtractCall(Cur, Cfg))
    /\ batches' = Append(batches, 0)
    /\ UNCHANGED <<args, stream, mp, cib>>

\* The for loop takes the next row of the batch.
Row ==
    /\ pc = "loop"
    /\ Len(stream) < MaxTicks
    /\ \E price \in Prices, volume \in Volumes :
         LET row == [date_time |-> Len(stream) + 1, price |-> price, volume |-> volume]
         IN  /\ Becomes(ExtractRow(Cur, Cfg, row))
             /\ stream' = Append(stream, row)
    /\ batches' = [batches EXCEPT ![Len(batches)] = @ + 1]
    /\ UNCHANGED <<args, mp, cib>>

\* The batch has no more rows: _extract_bars returns to its caller.
Return ==
    /\ pc = "loop"
    /\ Becomes(ExtractReturn(Cur))
    /\ UNCHANGED <<args, stream, batches, mp, cib>>

Next == Call \/ Row \/ Return

Spec == Init /\ [][Next]_vars

\* ---------------------------------------------------------------- replays
\* What the claims compare the program with: the same operations, applied
\* to the recorded stream under another split into calls.

\* Every bar so far: those handed to the caller and those of the running call.
AllBars == final_bars \o frame.list_bars

\* The rows rows[i..n] through the for loop of the activation S.
RECURSIVE RunRows(_, _, _, _)
RunRows(S, rows, i, n) ==
    IF i > n \/ S.pc # "loop" THEN S
    ELSE RunRows(ExtractRow(S, Cfg, rows[i]), rows, i + 1, n)

\* One call of _extract_bars over the whole stream, before it returns.
OneCall == RunRows(ExtractCall(Start, Cfg), stream, 1, Len(stream))

\* The caller keeps only the last entry of the cache it got back.
Truncated(S) ==
    IF IsNone(S.cache) \/ Get(S.cache) = <<>> THEN S
    ELSE [S EXCEPT !.cache = Some(<<Last(Get(S.cache))>>)]

\* The stream fed in calls of lens[j], lens[j+1], ... rows from row pos + 1
\* on, every call returning; truncate: the caller truncates the cache.
RECURSIVE RunBatches(_, _, _, _, _)
RunBatches(S, lens, j, pos, truncate) ==
    IF j > Len(lens) \/ S.pc = "error" THEN S
    ELSE LET c == ExtractCall(IF truncate THEN Truncated(S) ELSE S, Cfg)
             r == RunRows(c, stream, pos + 1, pos + lens[j])
         IN  RunBatches(IF r.pc = "error" THEN r ELSE ExtractReturn(r),
                        lens, j + 1, pos + lens[j], truncate)

RECURSIVE PrefixSum(_, _)
PrefixSum(lens, j) == IF j = 0 THEN 0 ELSE lens[j] + PrefixSum(lens, j - 1)

\* The rows after which a call returned and another one followed.
Boundaries == {PrefixSum(batches, j) : j \in 1..(Len(batches) - 1)}

\* Every call so far that has returned had at least one row.
NonEmptyBatches ==
    \A j \in 1..Len(batches) : (j < Len(batches) \/ pc = "idle") => batches[j] > 0

PrevClose(bars, i) == IF i = 1 THEN 0 ELSE bars[i - 1].date_time
EmittedAt(k) == \E i \in 1..Len(AllBars) : AllBars[i].date_time = k
IsPrefix(s, t) == Len(s) <= Len(t) /\ SubSeq(t, 1, Len(s)) = s

\* ------------------------------------------------------------------ claims

\* C1: for every split of the stream into non-empty batches, the bars of the
\* calls made so far, each continuing from the cache and bar lengths the
\* previous call returned, are exactly the bars one call over the whole
\* stream emits.
ContinuationEquivalence ==
    NonEmptyBatches => AllBars = OneCall.frame.list_bars

\* C1 witness: three one-row batches that emitted two bars.
ContinuationWitness ==
    /\ batches = <<1, 1, 1>>
    /\ Len(AllBars) = 2
    /\ AllBars = OneCall.frame.list_bars

Max(a, b) == IF b > a THEN b ELSE a

\* C2: every emitted bar has low <= min(open, close) and high >= max(open,
\* close).
OhlcBound ==
    \A i \in 1..Len(AllBars) :
        LET b == AllBars[i]
        IN  /\ b.low <= Min(b.open, b.close)
            /\ b.high >= Max(b.open, b.close)

\* C3: the open of every bar is the price of the first row after the
\* previous bar's closing row (of the first row of the stream for the first
\* bar), the first row counted in the bar's tick count.
OpenIsFirstTickOfBar ==
    \A i \in 1..Len(AllBars) :
        AllBars[i].open = stream[PrevClose(AllBars, i) + 1].price

\* What line 189 reports instead: the first bar opens at the first row of
\* the stream, every later bar at the row that closed the previous bar.
OpenIsOldestCachedTick ==
    \A i \in 1..Len(AllBars) :
        AllBars[i].open = IF i = 1 THEN stream[1].price
                          ELSE stream[PrevClose(AllBars, i)].price

\* C4: the tick count of every bar is the number of rows after the previous
\* bar's closing row up to its own closing row, so no row is counted twice.
TickAccounting ==
    \A i \in 1..Len(AllBars) :
        /\ AllBars[i].cum_ticks = AllBars[i].date_time - PrevClose(AllBars, i)
        /\ AllBars[i].cum_ticks >= 1
        /\ AllBars[i].date_time <= Len(stream)

\* C4 witness: two bars, one of them made of rows of different batches.
TickAccountingWitness ==
    /\ Len(AllBars) = 2
    /\ \E i \in 1..Len(AllBars) :
          /\ AllBars[i].cum_ticks >= 2
          /\ \E k \in Boundaries : PrevClose(AllBars, i) < k /\ k < AllBars[i].date_time

\* C5: at a row where imbalance_array, the row's own entry included, is
\* shorter than exp_num_ticks, the expected imbalance is NaN and no bar is
\* emitted, whatever cum_theta is.
EmissionGating ==
    \A k \in 1..Len(log) :
        RatLt(Rat(log[k].hist_len), log[k].exp_num_ticks)
            => IsNaN(log[k].exp_tick_imb) /\ ~EmittedAt(k)

\* C5 witness: a gated row with a non-zero cum_theta.
EmissionGatingWitness ==
    \E k \in 1..Len(log) :
        /\ RatLt(Rat(log[k].hist_len), log[k].exp_num_ticks)
        /\ log[k].cum_theta # 0
        /\ ~EmittedAt(k)

\* |cum_theta| > exp_num_ticks * |exp_tick_imb| at row k, the estimate defined.
ThresholdExceeded(k) ==
    /\ ~IsNaN(log[k].exp_tick_imb)
    /\ Abs(log[k].cum_theta) * log[k].exp_num_ticks[2] * log[k].exp_tick_imb[2]
         > log[k].exp_num_ticks[1] * Abs(log[k].exp_tick_imb[1])

\* C6: a bar is emitted at a row exactly when, after the row's updates,
\* |cum_theta| > exp_num_ticks * |exp_tick_imb| (strictly); the bar carries
\* the row's date_time and price as close, and a row emits at most one bar.
ThresholdEmission ==
    /\ \A k \in 1..Len(log) : EmittedAt(k) <=> ThresholdExceeded(k)
    /\ \A i \in 1..Len(AllBars) :
          /\ AllBars[i].date_time \in 1..Len(log)
          /\ AllBars[i].close = stream[AllBars[i].date_time].price
          /\ AllBars[i].date_time > PrevClose(AllBars, i)

\* C6 witness: a row at which cum_theta equals the threshold and no bar is
\* emitted, followed by a row that exceeds it and emits.
ThresholdEmissionWitness ==
    \E k \in 2..Len(log) :
        /\ ~IsNaN(log[k - 1].exp_tick_imb)
        /\ log[k - 1].cum_theta # 0
        /\ Abs(log[k - 1].cum_theta) * log[k - 1].exp_num_ticks[2] * log[k - 1].exp_tick_imb[2]
             = log[k - 1].exp_num_ticks[1] * Abs(log[k - 1].exp_tick_imb[1])
        /\ ~EmittedAt(k - 1)
        /\ EmittedAt(k)

\* C7: the first row has tick rule 0; a later row has the sign of its price
\* change against the row before it in the stream, or that row's tick rule
\* when the price is unchanged.
TickRuleCarry ==
    \A k \in 1..Len(log) :
        log[k].tick_rule =
            IF k = 1 THEN 0
            ELSE IF stream[k].price # stream[k - 1].price
                 THEN Sign(stream[k].price - stream[k - 1].price)
                 ELSE log[k - 1].tick_rule

\* C7 witness: an unchanged price right after a row that closed a bar and
\* ended its batch, the sign of the earlier move carried over.
TickRuleWitness ==
    \E k \in 2..Len(log) :
        /\ stream[k].price = stream[k - 1].price
        /\ log[k].tick_rule # 0
        /\ EmittedAt(k - 1)
        /\ (k - 1) \in Boundaries

\* C8: right after a bar is emitted the running tick count, dollar value,
\* volume and cum_theta are 0 and high/low are -inf/+inf, the last cache
\* entry shows those values, and imbalance_array and num_ticks_bar still
\* hold, in order, every entry they held before.
ResetOnEmission ==
    [][Len(AllBars') > Len(AllBars) =>
          /\ frame'.cum_ticks = 0 /\ frame'.cum_dollar_value = 0
          /\ frame'.cum_volume = 0 /\ frame'.cum_theta = 0
          /\ frame'.high_price = NegInf /\ frame'.low_price = PosInf
          /\ LET t == Last(frame'.cache)
             IN  /\ t.date_time = Len(stream')
                 /\ t.cum_ticks = 0 /\ t.cum_dollar_value = 0 /\ t.cum_volume = 0
                 /\ t.cum_theta = 0 /\ t.high = NegInf /\ t.low = PosInf
          /\ IsPrefix(imbalance_list, imbalance_list')
          /\ Len(imbalance_list') = Len(imbalance_list) + 1
          /\ IsPrefix(frame.num_ticks_bar, frame'.num_ticks_bar)
          /\ Len(frame'.num_ticks_bar) = Len(frame.num_ticks_bar) + 1]_vars

\* C8 witness: the last row closed the second bar; both histories held
\* entries before it.
ResetWitness ==
    /\ pc = "loop"
    /\ Len(AllBars) = 2
    /\ EmittedAt(Len(stream))
    /\ frame.cum_ticks = 0 /\ frame.cum_theta = 0
    /\ Len(frame.num_ticks_bar) = 2
    /\ Len(imbalance_list) = Len(stream)

\* The bars of the same calls when the caller hands each call only the last
\* entry of the cache the previous call returned.
TruncatedBars == RunBatches(Start, batches, 1, 0, TRUE).final_bars

\* The row whose entry is first in the cache when bar i is emitted.
OldestCached(i) == IF i = 1 THEN 1 ELSE PrevClose(AllBars, i)

\* The batch boundaries inside bar i, after the row of its oldest entry.
Cuts(i) == {k \in Boundaries : OldestCached(i) < k /\ k < AllBars[i].date_time}

SetMax(s) == CHOOSE x \in s : \A y \in s : y <= x

\* The lowest price among the rows counted in bar i.
LowestOf(i) ==
    LET rows == (PrevClose(AllBars, i) + 1)..AllBars[i].date_time
    IN  CHOOSE p \in {stream[k].price : k \in rows} :
            \A k \in rows : p <= stream[k].price

\* C9 as stated: with the carried cache cut down to its last entry the calls
\* emit the same bars: same closing rows, same open, high, low and close.
TruncatedCacheSameBars ==
    NonEmptyBatches =>
        LET T == TruncatedBars
        IN  /\ Len(T) = Len(AllBars)
            /\ \A i \in 1..Len(AllBars) :
                  /\ T[i].date_time = AllBars[i].date_time
                  /\ T[i].open = AllBars[i].open
                  /\ T[i].high = AllBars[i].high
                  /\ T[i].low = AllBars[i].low
                  /\ T[i].close = AllBars[i].close

\* C9 amended: with the carried cache cut down to its last entry the calls
\* emit bars with the same closing rows, high, close, volume, dollar value
\* and tick count; open and low are the same for a bar with no batch
\* boundary between the row of its oldest cache entry and its closing row,
\* and otherwise the open is the price of the last row before the latest
\* such boundary and the low is the lowest price of the bar's own rows.
TruncatedCacheBars ==
    NonEmptyBatches =>
        LET T == TruncatedBars
        IN  /\ Len(T) = Len(AllBars)
            /\ \A i \in 1..Len(AllBars) :
                  LET t == T[i]
                      b == AllBars[i]
                  IN  /\ t.date_time = b.date_time
                      /\ t.high = b.high
                      /\ t.close = b.close
                      /\ t.cum_vol = b.cum_vol
                      /\ t.cum_dollar = b.cum_dollar
                      /\ t.cum_ticks = b.cum_ticks
                      /\ IF Cuts(i) = {}
                         THEN t.open = b.open /\ t.low = b.low
                         ELSE /\ t.open = stream[SetMax(Cuts(i))].price
                              /\ t.low = LowestOf(i)

\* C9 witness: a bar spanning a batch boundary whose open differs between
\* the two runs.
TruncatedCacheWitness ==
    /\ NonEmptyBatches
    /\ LET T == TruncatedBars
       IN  \E i \in 1..Len(AllBars) :
              /\ Cuts(i) # {}
              /\ T[i].open # AllBars[i].open
              /\ T[i].date_time = AllBars[i].date_time

\* A call without rows lies between two calls with rows.
EmptyBatchBetween ==
    /\ Len(batches) >= 3
    /\ batches[1] > 0
    /\ Last(batches) > 0
    /\ \E j \in 2..(Len(batches) - 1) : batches[j] = 0

NonEmptyOnly == SelectSeq(batches, LAMBDA n : n > 0)

\* C10: calls with an empty batch between two non-empty ones leave the same
\* bars and the same carried state (cache, bar lengths, imbalance list) as
\* the same calls without the empty batch.
EmptyBatchIdempotence ==
    (pc = "idle" /\ EmptyBatchBetween) =>
        LET R == RunBatches(Start, NonEmptyOnly, 1, 0, FALSE)
        IN  /\ R.pc = "idle"
            /\ final_bars = R.final_bars
            /\ cache = R.cache
            /\ num_ticks_bar = R.num_ticks_bar
            /\ flag = R.flag
            /\ imbalance_list = R.imbalance_list

\* C10 witness: an empty call inside a bar: the bar closes in the call after it.
EmptyBatchWitness ==
    /\ pc = "idle"
    /\ EmptyBatchBetween
    /\ \E i \in 1..Len(final_bars) :
          /\ final_bars[i].date_time > batches[1]
          /\ PrevClose(final_bars, i) < batches[1]

\* C11: a call with an empty batch is a no-op at every position, the very
\* first call included: no later row raises, and the bars handed out are
\* those of the same calls without the empty ones.
EmptyBatchNoError ==
    /\ pc # "error"
    /\ pc = "idle" =>
          final_bars = RunBatches(Start, NonEmptyOnly, 1, 0, FALSE).final_bars

\* ----------------------------------------------- the same stream, per metric
\* The program over streams of up to MaxStream rows in at most MaxSplit
\* calls: long enough for two metrics to close bars at the same row after
\* having closed their previous bars at different rows.
LongCall ==
    /\ pc = "idle"
    /\ Len(batches) < MaxSplit
    /\ Becomes(ExtractCall(Cur, Cfg))
    /\ batches' = Append(batches, 0)
    /\ UNCHANGED <<args, stream, mp, cib>>

LongRow ==
    /\ pc = "loop"
    /\ Len(stream) < MaxStream
    /\ \E price \in Prices, volume \in Volumes :
         LET row == [date_time |-> Len(stream) + 1, price |-> price, volume |-> volume]
         IN  /\ Becomes(ExtractRow(Cur, Cfg, row))
             /\ stream' = Append(stream, row)
    /\ batches' = [batches EXCEPT ![Len(batches)] = @ + 1]
    /\ UNCHANGED <<args, mp, cib>>

NextLong == LongCall \/ LongRow \/ Return

SpecLong == Init /\ [][NextLong]_vars

\* The rows rows[i..n] through the for loop of the activation S of a call
\* with the arguments cfg.
RECURSIVE RunRowsAs(_, _, _, _, _)
RunRowsAs(S, cfg, rows, i, n) ==
    IF i > n \/ S.pc # "loop" THEN S
    ELSE RunRowsAs(ExtractRow(S, cfg, rows[i]), cfg, rows, i + 1, n)

\* The bars of one call over the whole stream with the metric m and the
\* other arguments as they are.
BarsOf(m) ==
    LET cfg == [Cfg EXCEPT !.metric = m]
    IN  RunRowsAs(ExtractCall(Start, cfg), cfg, stream, 1, Len(stream)).frame.list_bars

\* C12: when the calls have returned, a bar of theirs and a bar of the same
\* stream under another metric that close at the same row have the same
\* open, high, low and close.
MetricIndependence ==
    (pc = "idle" /\ NonEmptyBatches /\ AllBars # <<>>) =>
        \A m \in Metrics \ {metric} :
            LET B == BarsOf(m)
            IN  \A i \in 1..Len(AllBars) : \A j \in 1..Len(B) :
                    AllBars[i].date_time = B[j].date_time =>
                        /\ AllBars[i].open = B[j].open
                        /\ AllBars[i].high = B[j].high
                        /\ AllBars[i].low = B[j].low
                        /\ AllBars[i].close = B[j].close

\* C12 as it holds: bars closing at the same row have the same close, and
\* the same open, high and low when the bars before them closed at the
\* same row too (or both are first bars).
MetricIndependenceSameStart ==
    (pc = "idle" /\ NonEmptyBatches /\ AllBars # <<>>) =>
        \A m \in Metrics \ {metric} :
            LET B == BarsOf(m)
            IN  \A i \in 1..Len(AllBars) : \A j \in 1..Len(B) :
                    AllBars[i].date_time = B[j].date_time =>
                        /\ AllBars[i].close = B[j].close
                        /\ PrevClose(AllBars, i) = PrevClose(B, j) =>
                              /\ AllBars[i].open = B[j].open
                              /\ AllBars[i].high = B[j].high
                              /\ AllBars[i].low = B[j].low

\* C12 witness: two metrics that close their bars at different rows of the
\* stream both close a bar at one row, over the same rows.
MetricIndependenceWitness ==
    /\ pc = "idle"
    /\ NonEmptyBatches
    /\ \E m \in Metrics \ {metric} :
          LET B == BarsOf(m)
          IN  /\ [i \in 1..Len(B) |-> B[i].date_time]
                   # [i \in 1..Len(AllBars) |-> AllBars[i].date_time]
              /\ \E i \in 1..Len(AllBars) : \E j \in 1..Len(B) :
                    /\ AllBars[i].date_time = B[j].date_time
                    /\ PrevClose(AllBars, i) = PrevClose(B, j)

\* ------------------------------------------------ unvalidated arguments
\* _batch_run before its first batch, whatever the arguments.
AtStart ==
    /\ pc = Start.pc
    /\ cache = Start.cache
    /\ num_ticks_bar = Start.num_ticks_bar
    /\ flag = Start.flag
    /\ final_bars = Start.final_bars
    /\ frame = Start.frame
    /\ imbalance_list = Start.imbalance_list
    /\ log = Start.log
    /\ stream = <<>>
    /\ batches = <<>>

Degenerate ==
    exp_num_ticks_init < 1 \/ num_prev_bars <= 0 \/ num_ticks_ewma_window <= 0

\* The program called with one of its three numeric arguments at 0.
InitDegenerate ==
    /\ metric \in Metrics
    /\ exp_num_ticks_init \in InitTicks \cup {0}
    /\ num_prev_bars \in PrevBars \cup {0}
    /\ num_ticks_ewma_window \in Windows \cup {0}
    /\ Cardinality({a \in {"i", "p", "w"} :
                       \/ a = "i" /\ exp_num_ticks_init = 0
                       \/ a = "p" /\ num_prev_bars = 0
                       \/ a = "w" /\ num_ticks_ewma_window = 0}) = 1
    /\ AtStart
    /\ mp = MaxProfitOff
    /\ cib = ImbalanceBarsOff

SpecDegenerate == InitDegenerate /\ [][Next]_vars

\* C13: with a degenerate configuration the call fails before its first
\* row: the loop is never entered, no row is processed, no bar is emitted
\* and no state is handed back.
InvalidConfiguration ==
    Degenerate =>
        /\ pc # "loop"
        /\ log = <<>>
        /\ AllBars = <<>>
        /\ IsNone(cache)

\* ------------------------------------------------------ unvalidated rows
\* The for loop takes the next row of a batch whose volumes may be
\* negative: _assert_dataframe looks at the types of the first row only.
RowUnchecked ==
    /\ pc = "loop"
    /\ Len(stream) < MaxTicks
    /\ \E price \in Prices, volume \in Volumes \cup {-1} :
         LET row == [date_time |-> Len(stream) + 1, price |-> price, volume |-> volume]
         IN  /\ Becomes(ExtractRow(Cur, Cfg, row))
             /\ stream' = Append(stream, row)
    /\ batches' = [batches EXCEPT ![Len(batches)] = @ + 1]
    /\ UNCHANGED <<args, mp, cib>>

NextUnchecked == Call \/ RowUnchecked \/ Return

SpecUnchecked == Init /\ [][NextUnchecked]_vars

\* C14: a row with a negative volume makes the call fail: the row is not
\* processed, so it reaches neither the counters nor a bar.
InvalidInput ==
    \A k \in 1..Len(stream) :
        stream[k].volume < 0 => pc = "error" /\ Len(log) < k

\* ------------------------------------------------ calculate_max_profit
Quotes == {[ask |-> bid + spread, bid |-> bid] : bid \in BidPrices, spread \in Spreads}

\* A call of calculate_max_profit on any quotes with asks[i] > bids[i] > 0,
\* the empty list included.
InitProfit ==
    /\ metric = "tick_imbalance"
    /\ exp_num_ticks_init = 1
    /\ num_prev_bars = 1
    /\ num_ticks_ewma_window = 2
    /\ AtStart
    /\ cib = ImbalanceBarsOff
    /\ \E n \in 0..MaxLen : \E quotes \in [1..n -> Quotes] : \E fee \in FeeEighths :
          mp = MaxProfitCall([i \in 1..n |-> quotes[i].ask],
                             [i \in 1..n |-> quotes[i].bid], fee)

ProfitLoop ==
    /\ mp.pc = "loop"
    /\ mp.i < Len(mp.asks)
    /\ mp' = MaxProfitLoop(mp)
    /\ UNCHANGED <<args, prog, stream, batches, cib>>

ProfitReturn ==
    /\ mp.pc = "loop"
    /\ mp.i = Len(mp.asks)
    /\ mp' = MaxProfitReturn(mp)
    /\ UNCHANGED <<args, prog, stream, batches, cib>>

NextProfit == ProfitLoop \/ ProfitReturn

SpecProfit == InitProfit /\ [][NextProfit]_vars

\* The best profit (in quarters) of round trips over the quotes from..n
\* that buy at asks[i] and sell at a later bids[j] less the fees, one after
\* the other, or of no trade.
RECURSIVE BestLong(_, _, _, _)
BestLong(asks, bids, fee, from) ==
    LET n == Len(asks)
    IN  SetMax({0} \cup
               {Gain(bids[t[2]], fee) - Cost(asks[t[1]]) + BestLong(asks, bids, fee, t[2] + 1) :
                   t \in {u \in (from..n) \X (from..n) : u[1] < u[2]}})

\* The same for round trips that sell at bids[i] less the fees and buy back
\* at a later asks[j].
RECURSIVE BestShort(_, _, _, _)
BestShort(asks, bids, fee, from) ==
    LET n == Len(asks)
    IN  SetMax({0} \cup
               {Gain(bids[t[1]], fee) - Cost(asks[t[2]]) + BestShort(asks, bids, fee, t[2] + 1) :
                   t \in {u \in (from..n) \X (from..n) : u[1] < u[2]}})

Returned == mp.pc = "done" \/ mp.pc = "error"

\* C15: for every list of quotes the call returns max_profit = the best
\* profit of a long strategy + the best profit of a short strategy.
MaxProfitIsBestLongPlusShort ==
    Returned =>
        /\ ~IsNone(mp.result)
        /\ Get(mp.result).max_profit
              = BestLong(mp.asks, mp.bids, mp.fee, 1) + BestShort(mp.asks, mp.bids, mp.fee, 1)

StrictlyIncreasing(s) == \A i \in 1..(Len(s) - 1) : s[i] < s[i + 1]
StrictlyDecreasing(s) == \A i \in 1..(Len(s) - 1) : s[i] > s[i + 1]

\* What the call does return: on every non-empty list of quotes max_profit is
\* the best long profit plus the best short profit; on a rising series it is
\* the round trip from the first to the last quote, if that one pays.
MaxProfitOfNonEmpty ==
    mp.pc = "done" =>
        LET n == Len(mp.asks)
            max_profit == Get(mp.result).max_profit
        IN  /\ max_profit = BestLong(mp.asks, mp.bids, mp.fee, 1)
                              + BestShort(mp.asks, mp.bids, mp.fee, 1)
            /\ StrictlyIncreasing(mp.asks) /\ StrictlyIncreasing(mp.bids) =>
                  max_profit = Max(0, Gain(mp.bids[n], mp.fee) - Cost(mp.asks[1]))
            /\ StrictlyDecreasing(mp.asks) /\ StrictlyDecreasing(mp.bids) =>
                  max_profit = Max(0, Gain(mp.bids[1], mp.fee) - Cost(mp.asks[n]))

\* The quotes are mid + 1 and mid - 1 of a series of mid prices.
AroundMid == \A i \in 1..Len(mp.asks) : mp.asks[i] = mp.bids[i] + 2

\* C16: on a strictly increasing series of at least two mid prices the call
\* reports buy_trades [0] and sell_trades [n-1], on a strictly decreasing
\* one buy_trades [n-1] and sell_trades [0].
MonotoneTrades ==
    (Returned /\ Len(mp.asks) >= 2 /\ AroundMid) =>
        LET n == Len(mp.asks)
        IN  /\ StrictlyIncreasing(mp.bids) =>
                  /\ mp.pc = "done"
                  /\ Get(mp.result).buy_trades = <<0>>
                  /\ Get(mp.result).sell_trades = <<n - 1>>
            /\ StrictlyDecreasing(mp.bids) =>
                  /\ mp.pc = "done"
                  /\ Get(mp.result).buy_trades = <<n - 1>>
                  /\ Get(mp.result).sell_trades = <<0>>

\* C16 witness: three falling quotes: every index is a buy of the long
\* side, consolidated to the last one.
MonotoneTradesWitness ==
    /\ mp.pc = "done"
    /\ Len(mp.asks) = 3
    /\ AroundMid
    /\ StrictlyDecreasing(mp.bids)
    /\ mp.buy_trades = <<0, 1, 2>>
    /\ Get(mp.result).buy_trades = <<2>>
    /\ Get(mp.result).sell_trades = <<0>>

\* ------------------------------------------------------- the histories
\* C17: the imbalance list holds exactly one entry per processed row, in
\* the order of the rows, whatever bars were emitted and whatever calls
\* the rows came in: at every row its length was the number of rows
\* processed so far.
ImbalanceHistoryGrows ==
    /\ Len(imbalance_list) = Len(log)
    /\ \A k \in 1..Len(log) :
          /\ imbalance_list[k] = log[k].imbalance
          /\ log[k].hist_len = k

\* C17 witness: three rows in two calls, a bar emitted on the way, and the
\* list has its three entries.
ImbalanceHistoryWitness ==
    /\ Len(batches) >= 2
    /\ batches[1] > 0
    /\ Len(AllBars) >= 1
    /\ AllBars[1].date_time <= batches[1]
    /\ Len(log) = 3
    /\ Len(imbalance_list) = 3

\* The bar lengths the program holds: those of the running call, or those
\* the last call handed back.
BarLengthHistory ==
    IF pc = "loop" THEN frame.num_ticks_bar
    ELSE IF IsNone(num_ticks_bar) THEN <<>> ELSE Get(num_ticks_bar)

\* C18: the bar lengths are the tick counts of the bars emitted since the
\* start of the stream, one per bar and in their order, in every call.
BarLengthPerBar ==
    BarLengthHistory = [i \in 1..Len(AllBars) |-> AllBars[i].cum_ticks]

\* C18 witness: two bars emitted in two different calls, both lengths held.
BarLengthWitness ==
    /\ Len(AllBars) = 2
    /\ \E b \in Boundaries : AllBars[1].date_time <= b /\ b < AllBars[2].date_time
    /\ Len(BarLengthHistory) = 2

\* The expected bar length after n bars: the initial guess, then the EWMA
\* over the last num_ticks_ewma_window bar lengths.
ExpectedAfter(n) ==
    IF n = 0 THEN Rat(exp_num_ticks_init)
    ELSE Last(ewma(LastN([i \in 1..n |-> AllBars[i].cum_ticks], num_ticks_ewma_window),
                   num_ticks_ewma_window))

\* The bars closed before row k.
BarsBefore(k) == Cardinality({i \in 1..Len(AllBars) : AllBars[i].date_time < k})

\* C19: the expected bar length in use at every row is the initial guess
\* before the first bar and afterwards the EWMA of the last
\* num_ticks_ewma_window bar lengths as of the latest bar before the row:
\* it changes at emissions only, and a call boundary leaves it as it is.
ExpectedTicksPerBar ==
    /\ \A k \in 1..Len(log) : log[k].exp_num_ticks = ExpectedAfter(BarsBefore(k))
    /\ pc = "loop" => frame.exp_num_ticks = ExpectedAfter(Len(AllBars))
    /\ (pc = "idle" /\ ~IsNone(cache) /\ Get(cache) # <<>>) =>
          Last(Get(cache)).exp_num_ticks = ExpectedAfter(Len(AllBars))

\* C19 witness: a third bar, emitted in a second call, after two bars of
\* different lengths: the EWMA is over the last two lengths only.
ExpectedTicksWitness ==
    /\ pc = "idle"
    /\ Len(batches) = 2
    /\ Len(AllBars) = 3
    /\ AllBars[1].cum_ticks # AllBars[2].cum_ticks
    /\ AllBars[3].date_time > batches[1]
    /\ Len(Get(num_ticks_bar)) > num_ticks_ewma_window
    /\ Last(Get(cache)).exp_num_ticks = ExpectedAfter(3)

\* The imbalance contribution of row k under the metric of the call.
Contribution(k) ==
    IF metric = "tick_imbalance" THEN log[k].tick_rule
    ELSE IF metric = "dollar_imbalance"
         THEN log[k].tick_rule * stream[k].price * stream[k].volume
         ELSE log[k].tick_rule * stream[k].volume

RECURSIVE SumContributions(_, _)
SumContributions(from, to) ==
    IF from > to THEN 0 ELSE Contribution(to) + SumContributions(from, to - 1)

\* The row that closed the latest bar before row k (0: none).
ClosedBefore(k) ==
    SetMax({0} \cup {AllBars[i].date_time : i \in {j \in 1..Len(AllBars) : AllBars[j].date_time < k}})

\* C20: cum_theta is at every row the sum of the contributions of the rows
\* since the latest bar closed before it, that row included, and what the
\* program holds after its latest row is the sum over the rows of the bar
\* still open (0 right after an emission), in the running call and in the
\* cache handed from one call to the next.
ThetaIsSumOfOpenBar ==
    /\ \A k \in 1..Len(log) :
          log[k].cum_theta = SumContributions(ClosedBefore(k) + 1, k)
    /\ pc = "loop" =>
          frame.cum_theta = SumContributions(ClosedBefore(Len(log) + 1) + 1, Len(log))
    /\ (pc = "idle" /\ ~IsNone(cache) /\ Get(cache) # <<>>) =>
          Last(Get(cache)).cum_theta
             = SumContributions(ClosedBefore(Len(log) + 1) + 1, Len(log))

\* C20 witness: a bar still open over a call boundary, its theta not 0 and
\* made of contributions of rows of both calls.
ThetaWitness ==
    /\ pc = "loop"
    /\ Len(batches) = 2
    /\ batches[1] > ClosedBefore(Len(log) + 1)
    /\ Contribution(batches[1]) # 0
    /\ batches[2] > 0
    /\ Contribution(Len(log)) # 0
    /\ frame.cum_theta # 0
    /\ metric = "dollar_imbalance"

\* ------------------------------------------------- the imbalance window
\* The product exp_num_ticks * num_prev_bars at the latest row.
WindowProduct == RatMul(Last(log).exp_num_ticks, Rat(num_prev_bars))

\* The EWMA of the last n entries of the imbalance list with span n.
ImbalanceEwma(n) == Last(ewma(LastN(imbalance_list, n), n))

\* C21: the expected imbalance of a row, when defined, is the EWMA over
\* the last round(exp_num_ticks * num_prev_bars) entries of the imbalance
\* list, with that rounded number as span.
WindowIsRounded ==
    (log # <<>> /\ ~IsNaN(Last(log).exp_tick_imb)) =>
        Last(log).exp_tick_imb = ImbalanceEwma(RatRound(WindowProduct))

\* C21 as it holds: the number of entries and the span are the product
\* truncated to an integer.
WindowIsTruncated ==
    (log # <<>> /\ ~IsNaN(Last(log).exp_tick_imb)) =>
        Last(log).exp_tick_imb = ImbalanceEwma(RatInt(WindowProduct))

\* C21 witness: a row whose product has a fractional part of a half or
\* more, so that rounding and truncation give different windows and
\* different estimates.
WindowWitness ==
    /\ log # <<>>
    /\ ~IsNaN(Last(log).exp_tick_imb)
    /\ RatRound(WindowProduct) = RatInt(WindowProduct) + 1
    /\ Last(log).exp_tick_imb = ImbalanceEwma(RatInt(WindowProduct))
    /\ RatGt(ImbalanceEwma(RatRound(WindowProduct)), Last(log).exp_tick_imb)

\* ------------------------------------------------------ the returned cache
\* The rows of the latest call that has returned.
LastBatchRows == (Len(stream) - Last(batches) + 1)..Len(stream)

Returns == pc = "idle" /\ batches # <<>> /\ ~IsNone(cache)

\* C22: the cache a call returns holds one entry per row of that call, in
\* the order of the rows.
CacheOnePerTick ==
    Returns =>
        /\ Len(Get(cache)) = Last(batches)
        /\ \A i \in 1..Len(Get(cache)) :
              Get(cache)[i].date_time = Len(stream) - Last(batches) + i

\* The rows the returned cache has entries of: the row that closed the
\* latest bar, once, then every later row twice (lines 182 and 231).
RECURSIVE Twice(_, _)
Twice(from, to) == IF from > to THEN <<>> ELSE Twice(from, to - 1) \o <<to, to>>

CachedRows ==
    LET e == ClosedBefore(Len(log) + 1)
    IN  (IF e = 0 THEN <<>> ELSE <<e>>) \o Twice(e + 1, Len(log))

\* C22 as it holds: the returned cache holds the entries of the bar still
\* open, whatever call its rows came in: one entry of the row that closed
\* the latest bar, with the counters after the reset, then two entries of
\* every later row, each with the counters after that row.
CacheOfOpenBar ==
    Returns =>
        LET e == ClosedBefore(Len(log) + 1)
            c == Get(cache)
        IN  /\ [i \in 1..Len(c) |-> c[i].date_time] = CachedRows
            /\ \A i \in 1..Len(c) :
                  /\ c[i].price = stream[c[i].date_time].price
                  /\ c[i].tick_rule = log[c[i].date_time].tick_rule
                  /\ c[i].cum_ticks = c[i].date_time - e
                  /\ c[i].cum_theta = SumContributions(e + 1, c[i].date_time)

\* C22 witness: a call of two rows that closed a bar at its first row
\* returns three entries.
CacheWitness ==
    /\ Returns
    /\ batches = <<1, 2>>
    /\ ClosedBefore(Len(log) + 1) = 2
    /\ Len(Get(cache)) = 3
    /\ Get(cache)[1].cum_ticks = 0
    /\ Get(cache)[2] = Get(cache)[3]

\* ------------------------------------------------ compute_imbalance_bars
BucketSizes == {2, 3}

Candles ==
    {[Open |-> o, High |-> Max(o, c), Low |-> Min(o, c), Close |-> c,
      Volume |-> v, Number |-> 1] : o \in Prices, c \in Prices, v \in Volumes}

\* A call of compute_imbalance_bars on any frame of up to MaxRows rows,
\* with or without the column Number.
InitBuckets ==
    /\ metric = "tick_imbalance"
    /\ exp_num_ticks_init = 1
    /\ num_prev_bars = 1
    /\ num_ticks_ewma_window = 2
    /\ AtStart
    /\ mp = MaxProfitOff
    /\ \E n \in 0..MaxRows : \E ohlcv \in [1..n -> Candles] :
          \E bucket_size \in BucketSizes : \E numbered \in BOOLEAN :
             cib = ImbalanceBarsCall(ohlcv, bucket_size, numbered)

BucketLoop ==
    /\ cib.pc = "loop"
    /\ cib.i < Len(cib.rows)
    /\ cib' = ImbalanceBarsLoop(cib)
    /\ UNCHANGED <<args, prog, stream, batches, mp>>

BucketReturn ==
    /\ cib.pc = "loop"
    /\ cib.i = Len(cib.rows)
    /\ cib' = ImbalanceBarsReturn(cib)
    /\ UNCHANGED <<args, prog, stream, batches, mp>>

NextBuckets == BucketLoop \/ BucketReturn

SpecBuckets == InitBuckets /\ [][NextBuckets]_vars

\* The closing rows and volumes of buckets over the rows k..n of the frame
\* when the rows for which counts(k) holds add their Volume to the bucket.
RECURSIVE Buckets(_, _, _, _, _)
Buckets(ohlcv, bucket_size, counts(_), k, acc) ==
    IF k > Len(ohlcv) THEN <<>>
    ELSE LET sum == acc + (IF counts(k) THEN ohlcv[k].Volume ELSE 0)
         IN  IF sum >= bucket_size
             THEN <<[idx |-> k, Volume |-> sum]>> \o Buckets(ohlcv, bucket_size, counts, k + 1, 0)
             ELSE Buckets(ohlcv, bucket_size, counts, k + 1, sum)

BarBuckets == [i \in 1..Len(cib.bars) |-> [idx |-> cib.bars[i].idx, Volume |-> cib.bars[i].Volume]]

OpensAtPreviousClose ==
    \A i \in 2..Len(cib.bars) : cib.bars[i].Open = cib.bars[i - 1].Close

\* C23: the bars the call returns close at the first row at which the
\* Volume of every row since the previous bar (of every row the loop
\* visits, for the first bar) sums to bucket_size or more, with that sum
\* as Volume and the previous bar's Close as Open.
VolumeBuckets ==
    cib.pc = "done" =>
        /\ BarBuckets = Buckets(cib.ohlcv, cib.bucket_size, LAMBDA k : TRUE, 2, 0)
        /\ OpensAtPreviousClose

\* What the call does on a frame of two rows or more with the column
\* Number: a row adds its Volume only if its Close differs from the Close
\* of the row before it; the first bar opens at the Open of the second row.
MovingVolumeBuckets ==
    cib.pc = "done" =>
        /\ BarBuckets = Buckets(cib.ohlcv, cib.bucket_size,
                                LAMBDA k : cib.ohlcv[k].Close # cib.ohlcv[k - 1].Close, 2, 0)
        /\ OpensAtPreviousClose
        /\ cib.bars # <<>> => cib.bars[1].Open = cib.ohlcv[2].Open

\* ----------------------------------------------------- the running sums
RECURSIVE SumOver(_, _, _)
SumOver(f(_), from, to) == IF from > to THEN 0 ELSE f(to) + SumOver(f, from, to - 1)

VolumeOf(k) == stream[k].volume
DollarOf(k) == stream[k].price * stream[k].volume

\* The counters the program holds: the locals of the running call, or the
\* last cache entry between calls.
Running ==
    IF pc = "loop" THEN frame
    ELSE IF ~IsNone(cache) /\ Get(cache) # <<>> THEN Last(Get(cache))
    ELSE [cum_ticks |-> 0, cum_volume |-> 0, cum_dollar_value |-> 0]

RECURSIVE SumBars(_, _)
SumBars(f(_), n) == IF n = 0 THEN 0 ELSE f(AllBars[n]) + SumBars(f, n - 1)

\* C24: the tick counts, volumes and dollar values of the bars so far plus
\* the running ones are those of all processed rows, and every bar holds
\* the volume and dollar value of its own rows only.
Conservation ==
    pc # "error" =>
        /\ SumBars(LAMBDA b : b.cum_ticks, Len(AllBars)) + Running.cum_ticks = Len(log)
        /\ SumBars(LAMBDA b : b.cum_vol, Len(AllBars)) + Running.cum_volume
              = SumOver(VolumeOf, 1, Len(log))
        /\ SumBars(LAMBDA b : b.cum_dollar, Len(AllBars)) + Running.cum_dollar_value
              = SumOver(DollarOf, 1, Len(log))
        /\ \A i \in 1..Len(AllBars) :
              /\ AllBars[i].cum_vol
                    = SumOver(VolumeOf, PrevClose(AllBars, i) + 1, AllBars[i].date_time)
              /\ AllBars[i].cum_dollar
                    = SumOver(DollarOf, PrevClose(AllBars, i) + 1, AllBars[i].date_time)

\* C24 witness: after two calls, a bar of two rows and a third row running.
ConservationWitness ==
    /\ pc = "idle"
    /\ Len(batches) = 2
    /\ batches[1] > 0
    /\ Len(AllBars) = 1
    /\ AllBars[1].cum_ticks = 2
    /\ Running.cum_ticks = 1
    /\ Running.cum_volume = stream[3].volume
    /\ AllBars[1].cum_vol + Running.cum_volume = SumOver(VolumeOf, 1, 3)

ConstantPrice == \A k \in 1..Len(stream) : stream[k].price = stream[1].price

\* C25: no bar closes at a row at which cum_theta is 0, and a stream whose
\* price never changes has no bar: its counters run over all its rows.
NoEmissionOnZeroImbalance ==
    /\ \A k \in 1..Len(log) : log[k].cum_theta = 0 => ~EmittedAt(k)
    /\ ConstantPrice =>
          /\ AllBars = <<>>
          /\ \A k \in 1..Len(log) : log[k].tick_rule = 0
          /\ pc # "error" =>
                /\ Running.cum_ticks = Len(log)
                /\ Running.cum_volume = SumOver(VolumeOf, 1, Len(log))

\* C25 witness: three rows at one price in two calls, the expected
\* imbalance defined at the last of them, and no bar.
NoEmissionWitness ==
    /\ Len(stream) = 3
    /\ ConstantPrice
    /\ Len(batches) = 2
    /\ batches[1] > 0
    /\ Len(log) = 3
    /\ ~IsNaN(log[3].exp_tick_imb)
    /\ AllBars = <<>>
    /\ Running.cum_ticks = 3

\* C26: at every row after the first bar the expected bar length is at
\* most the length of the imbalance list, so the expected imbalance is
\* defined; and the first bar has at least exp_num_ticks_init rows.
GateStaysOpen ==
    /\ (log # <<>> /\ BarsBefore(Len(log)) >= 1) =>
          /\ ~RatGt(Last(log).exp_num_ticks, Rat(Last(log).hist_len))
          /\ ~IsNaN(Last(log).exp_tick_imb)
    /\ AllBars # <<>> => AllBars[1].cum_ticks >= exp_num_ticks_init

\* C26 witness: a first bar held back to its third row by the initial
\* guess, and a later row at which the expected imbalance is defined.
GateWitness ==
    /\ exp_num_ticks_init = 3
    /\ AllBars # <<>>
    /\ AllBars[1].cum_ticks = 3
    /\ Len(log) > 3
    /\ BarsBefore(Len(log)) >= 1
    /\ ~IsNaN(Last(log).exp_tick_imb)
    /\ RatGt(Rat(Last(log).hist_len), Last(log).exp_num_ticks)

====
